---------------------------- MODULE Spec2Model ----------------------------
(***************************************************************************)
(* Model of src/src/invoke.js: one invocation of invoke(), from the       *)
(* de-duplication of the peer list to the settlement of the returned      *)
(* promise.                                                                *)
(*                                                                         *)
(* One action is one JavaScript macrotask: the return of a collaborator    *)
(* call, an event-hub callback or a timer callback, together with every    *)
(* promise reaction (microtask) it triggers.  The collaborators           *)
(* (createFabricClient, setUserContext, loadPeerCert, the channel and the  *)
(* event hub of fabric-client) are the environment: each call returns or  *)
(* fails nondeterministically, and the event hub delivers commit events   *)
(* and transport errors to the callbacks registered on it.                *)
(***************************************************************************)
EXTENDS Naturals, Sequences, FiniteSets, TLC

(***************************************************************************)
(* Bounds of the model.                                                    *)
(***************************************************************************)
\* longest peer list given to an invocation of the whole workflow
MaxPeers == 1
\* longest peer list given to the peer de-duplication alone
MaxRegistryPeers == 3
\* largest maxTimeout (in clock ticks) given to an invocation
MaxTimeout == 2
\* most transport errors the event hub reports in one invocation
MaxErrors == 7

(***************************************************************************)
(* Program constants.                                                      *)
(***************************************************************************)
MAX_RETRIES_EVENT_HUB == 5

(***************************************************************************)
(* JavaScript values.  A string is the sequence of the fragments it was    *)
(* concatenated from, so that "the message contains x" can be asked.     *)
(***************************************************************************)
Str(frags) == [t |-> "string", s |-> frags]
Obj(frags) == [t |-> "object", s |-> frags]
Null == [t |-> "null", s |-> << >>]

\* String(v), as the Error constructor and template literals apply it
JSString(v) ==
    CASE v.t = "object" -> <<"[object Object]">>
      [] v.t = "null" -> <<"null">>
      [] OTHER -> v.s

\* v in a boolean context: null and the empty string are falsy
Truthy(v) ==
    CASE v.t = "null" -> FALSE
      [] v.t = "string" -> v.s # << >> /\ v.s # <<"">>
      [] OTHER -> TRUE

\* new Error(v): the message is String(v)
NewError(v) == [t |-> "Error", s |-> JSString(v)]

\* does the message of an error (or a string) contain the fragment?
Mentions(v, frag) == \E i \in DOMAIN v.s : v.s[i] = frag

(***************************************************************************)
(* Peer registry: invoke.js lines 21-29.                                   *)
(***************************************************************************)
\* identities (cn) a caller gives; "0", "1", "2" are canonical array
\* indices, which a JavaScript object enumerates before its other keys
CNs == {"peer0", "peer1", "1"}
\* the rest of a peer descriptor (url, broadcastUrl, adminUserId)
Descs == {"a", "b"}
Peer == [cn : CNs, desc : Descs]

IndexOf == ("0" :> 0) @@ ("1" :> 1) @@ ("2" :> 2)
IsArrayIndex(key) == key \in DOMAIN IndexOf

SeqsUpTo(S, n) == UNION {[1..k -> S] : k \in 0..n}

\* the peers argument: absent (undefined), null, or an array of descriptors
PeerInputs(n) ==
    {[kind |-> "undefined", items |-> << >>], [kind |-> "null", items |-> << >>]}
    \cup {[kind |-> "array", items |-> ps] : ps \in SeqsUpTo(Peer, n)}

\* peers = [] (default parameter, line 16) and (peers || []) (line 22)
PeersOrEmpty(input) == IF input.kind = "array" THEN input.items ELSE << >>

InsertAt(seq, i, e) == SubSeq(seq, 1, i - 1) \o <<e>> \o SubSeq(seq, i, Len(seq))

\* peersMap[peer.cn] = peer (line 23) on an object whose own properties
\* are kept in enumeration order: array indices ascending, then the other
\* keys in the order they were created; an existing key keeps its place
PutProperty(entries, peer) ==
    IF \E i \in DOMAIN entries : entries[i].cn = peer.cn
    THEN [i \in DOMAIN entries |->
             IF entries[i].cn = peer.cn THEN peer ELSE entries[i]]
    ELSE IF IsArrayIndex(peer.cn)
         THEN LET after == {i \in DOMAIN entries :
                               \/ ~IsArrayIndex(entries[i].cn)
                               \/ IndexOf[entries[i].cn] > IndexOf[peer.cn]}
                  pos == IF after = {} THEN Len(entries) + 1
                         ELSE CHOOSE i \in after : \A j \in after : i <= j
              IN  InsertAt(entries, pos, peer)
         ELSE Append(entries, peer)

RECURSIVE PeersMap(_)
\* the forEach of lines 22-24
PeersMap(ps) ==
    IF ps = << >> THEN << >>
    ELSE PutProperty(PeersMap(SubSeq(ps, 1, Len(ps) - 1)), ps[Len(ps)])

\* Object.values(peersMap) (line 25)
UniquePeers(input) == PeersMap(PeersOrEmpty(input))

\* new Error('No endorser peers provided.') (line 28)
NoPeersError == [t |-> "Error", s |-> <<"No endorser peers provided.">>]

(***************************************************************************)
(* Objects with string fields: <<name, value, name, value, ...>>.          *)
(***************************************************************************)
Field(v, name) ==
    IF v.t = "object" /\ \E i \in DOMAIN v.s : i % 2 = 1 /\ v.s[i] = name
    THEN v.s[(CHOOSE i \in DOMAIN v.s : i % 2 = 1 /\ v.s[i] = name) + 1]
    ELSE "undefined"

(***************************************************************************)
(* Endorsement evaluation: invoke.js lines 63-87 and 173-175.              *)
(***************************************************************************)
\* payloads of the first proposal response: a JSON object, the JSON null,
\* text that is not JSON, and the empty buffer
Payloads == {"{\"make\":\"Porsche\"}", "null", "plain text", ""}
\* the diagnostic message of a failed proposal
Messages == {"chaincode error: Incorrect number of arguments. Expecting 5"}

\* results of channel.sendTransactionProposal, as far as the first
\* response goes: no responses at all, a response object (with or without
\* a top-level message), or no response object (with or without a message)
ProposalResults ==
    {[present |-> FALSE, response |-> FALSE, status |-> 0, payload |-> "",
      message |-> ""]}
    \cup [present : {TRUE}, response : {TRUE}, status : {200, 500},
          payload : Payloads, message : Messages \cup {""}]
    \cup [present : {TRUE}, response : {FALSE}, status : {0}, payload : {""},
          message : Messages \cup {""}]

\* JSON.parse on the payloads above: the value, or Null when it throws
JSONParse(payload) ==
    IF payload = "{\"make\":\"Porsche\"}" THEN Obj(<<"make", "Porsche">>)
    ELSE Null
JSONParses(payload) == payload \in {"{\"make\":\"Porsche\"}", "null"}

\* lines 69-75: JSON.parse(payload), or the payload itself when not JSON
DecodePayload(payload) ==
    IF JSONParses(payload) THEN JSONParse(payload) ELSE Str(<<payload>>)

\* ./fabric/parseErrorMessage: the reason extracted from a diagnostic
ParseErrorMessage(message) ==
    IF message = "chaincode error: Incorrect number of arguments. Expecting 5"
    THEN [t |-> "Error", s |-> <<"Error: Incorrect number of arguments. Expecting 5">>]
    ELSE [t |-> "Error", s |-> <<message>>]

GenericProposalMessage ==
    Str(<<"Failed to send Proposal or receive valid response. Response null or status is not 200. exiting...">>)

\* a slip: any response object counts as a good proposal
IsProposalGoodAnyStatus(r) == r.present /\ r.response

\* lines 68 and 76: the first response has a response object of status 200
IsProposalGood(r) == r.present /\ r.response /\ r.status = 200

\* lines 68-75: transactionProposalResponse after the evaluation
ProposalResponseValue(r) ==
    IF r.present /\ r.response THEN DecodePayload(r.payload) ELSE Null

\* a slip: the diagnostic message is parsed whether or not there is a
\* response object
HasProposalErrorAnyShape(r) == r.present /\ r.message # ""

\* lines 82-83: proposalError is set only when there is no response object
HasProposalError(r) == r.present /\ ~r.response /\ r.message # ""

\* lines 173-175: what a bad proposal throws
BadProposalError(r) ==
    IF HasProposalError(r) THEN ParseErrorMessage(r.message)
    ELSE NewError(IF Truthy(ProposalResponseValue(r))
                  THEN ProposalResponseValue(r)
                  ELSE GenericProposalMessage)

(***************************************************************************)
(* Outcome reconciliation: invoke.js lines 177-204.                        *)
(***************************************************************************)
RECURSIVE Join(_, _)
\* errors.join(sep)
Join(lines, sep) ==
    IF lines = << >> THEN << >>
    ELSE IF Len(lines) = 1 THEN lines[1]
    ELSE lines[1] \o <<sep>> \o Join(Tail(lines), sep)

Pending == [state |-> "pending", value |-> Null]
Fulfilled(v) == [state |-> "fulfilled", value |-> v]
Rejected(v) == [state |-> "rejected", value |-> v]

\* lines 179-203, on the results of Promise.all: results[1] here is
\* results[0] there; results.status of line 188 is a property of the
\* array, hence undefined
ReconcileErrors(results) ==
    (IF Field(results[1], "status") = "SUCCESS" THEN << >>
     ELSE << <<"Failed to order the transaction.Error code: ", "undefined", " ">> >>)
    \o
    (IF Field(results[2], "event_status") = "VALID" THEN << >>
     ELSE << <<"Transaction failed to be committed to the ledger due to: ",
               Field(results[2], "event_status"), ".">> >>)

\* a slip: the status of the ordering submission is not looked at
ReconcileCommitOnly(results, proposalResponse) ==
    IF Field(results[2], "event_status") = "VALID"
    THEN Fulfilled(proposalResponse)
    ELSE Rejected(NewError(Str(Join(ReconcileErrors(results), "\n"))))

Reconcile(results, proposalResponse) ==
    IF ReconcileErrors(results) = << >>
    THEN Fulfilled(proposalResponse)
    ELSE Rejected(NewError(Str(Join(ReconcileErrors(results), "\n"))))

\* a promise settles once: resolve and reject on a settled promise do nothing
Settle(promise, settled) == IF promise.state = "pending" THEN settled ELSE promise

\* Promise.all of line 169 with the reactions of lines 177-208: the first
\* rejection of a leg rejects the invocation, two fulfilled legs are
\* reconciled
AfterLegs(current, send, tx, proposalResponse) ==
    IF current.state # "pending" THEN current
    ELSE IF send.state = "rejected" THEN Rejected(send.value)
    ELSE IF tx.state = "rejected" THEN Rejected(tx.value)
    ELSE IF send.state = "fulfilled" /\ tx.state = "fulfilled"
         THEN Reconcile(<<send.value, tx.value>>, proposalResponse)
    ELSE current

(***************************************************************************)
(* Errors of the collaborators and of the listener.                        *)
(***************************************************************************)
CollaboratorError(who) == [t |-> "Error", s |-> <<who, " failed">>]
TimeoutError ==
    [t |-> "Error", s |-> <<"Transaction did not complete within the allowed time">>]
\* line 157
EventHubError(err) ==
    NewError(Str(<<"There was a problem with the eventhub: ", err, " ">>))
TransportErrors == {"EventHub disconnected"}

\* validation codes of a commit event
Codes == {"VALID", "MVCC_READ_CONFLICT"}
\* statuses channel.sendTransaction answers with
SendStatuses == {"SUCCESS", "BAD_REQUEST"}
TransactionId == "tx1"

\* line 142
ReturnStatus(code) == Obj(<<"event_status", code, "tx_id", TransactionId>>)

(***************************************************************************)
(* The state of one invocation.                                            *)
(***************************************************************************)
VARIABLES
    peers,          \* the peers argument
    maxTimeout,     \* the maxTimeout argument, in clock ticks
    uniquePeers,    \* line 25
    pc,             \* the call the promise chain of lines 36-208 waits for
    outcome,        \* the promise invoke returned
    calls,          \* how often each collaborator capability was called
    proposalResult, \* the result of sendTransactionProposal
    transactionProposalResponse,    \* line 35
    sendLeg,        \* sendPromise, line 109
    txLeg,          \* txPromise, line 120
    adminSwitch,    \* the setUserContext call of line 125
    hub,            \* the event hub: created, connected, registered
    timer,          \* the deadline timer of line 127
    elapsed,        \* clock ticks since the deadline timer was started
    retries,        \* line 131
    rearmPending,   \* setTimeout(startListening, 0) callbacks not yet run
    listens,        \* how often startListening has run
    commits         \* validation codes delivered to the commit callback

vars == <<peers, maxTimeout, uniquePeers, pc, outcome, calls, proposalResult,
          transactionProposalResponse, sendLeg, txLeg, adminSwitch, hub,
          timer, elapsed, retries, rearmPending, listens, commits>>

Capabilities == {"createFabricClient", "setUserContext", "sendTransactionProposal",
                 "loadPeerCert", "sendTransaction", "newEventHub"}

NoLeg == [state |-> "none", value |-> Null]
NoProposalResult ==
    [present |-> FALSE, response |-> FALSE, status |-> 0, payload |-> "",
     message |-> "not received"]

InitWith(inputs) ==
    /\ peers \in inputs
    /\ maxTimeout \in 1..MaxTimeout
    /\ uniquePeers = << >>
    /\ pc = "invoke"
    /\ outcome = Pending
    /\ calls = [c \in Capabilities |-> 0]
    /\ proposalResult = NoProposalResult
    /\ transactionProposalResponse = Null
    /\ sendLeg = NoLeg
    /\ txLeg = NoLeg
    /\ adminSwitch = "none"
    /\ hub = [created |-> FALSE, connected |-> FALSE, registered |-> FALSE]
    /\ timer = "none"
    /\ elapsed = 0
    /\ retries = 0
    /\ rearmPending = 0
    /\ listens = 0
    /\ commits = {}

Init == InitWith(PeerInputs(MaxPeers))

Called(c) == [calls EXCEPT ![c] = @ + 1]

orchestrationVars == <<sendLeg, txLeg, adminSwitch, hub, timer, elapsed, retries,
                       rearmPending, listens, commits>>

(***************************************************************************)
(* The promise chain up to the endorsement: invoke.js lines 13-87.         *)
(***************************************************************************)
\* a slip: the chain is started without looking at the number of peers
InvokeWithoutPeerCheck ==
    /\ pc = "invoke"
    /\ uniquePeers' = UniquePeers(peers)
    /\ outcome' = outcome
    /\ pc' = "createFabricClient"
    /\ calls' = Called("createFabricClient")
    /\ UNCHANGED <<peers, maxTimeout, proposalResult, transactionProposalResponse,
                   orchestrationVars>>

\* lines 21-37: de-duplicate the peers, reject when none is left, else
\* start the chain, whose first reaction calls createFabricClient
Invoke ==
    /\ pc = "invoke"
    /\ uniquePeers' = UniquePeers(peers)
    /\ IF Len(UniquePeers(peers)) = 0
       THEN /\ outcome' = Rejected(NoPeersError)
            /\ pc' = "done"
            /\ calls' = calls
       ELSE /\ outcome' = outcome
            /\ pc' = "createFabricClient"
            /\ calls' = Called("createFabricClient")
    /\ UNCHANGED <<peers, maxTimeout, proposalResult, transactionProposalResponse,
                   orchestrationVars>>

\* a slip: the chain has no catch, a rejection in it is lost
ChainFailsUnhandled(err) ==
    /\ outcome' = outcome
    /\ pc' = "done"
    /\ calls' = calls

\* lines 205-208: a rejection anywhere in the chain rejects the invocation
ChainFails(err) ==
    /\ outcome' = Settle(outcome, Rejected(err))
    /\ pc' = "done"
    /\ calls' = calls

\* lines 37-42: createFabricClient settles; on success the client is
\* bound to the caller identity
CreateFabricClientReturns ==
    /\ pc = "createFabricClient"
    /\ \E ok \in BOOLEAN :
          IF ok
          THEN /\ pc' = "setUserContext"
               /\ calls' = Called("setUserContext")
               /\ outcome' = outcome
          ELSE ChainFails(CollaboratorError("createFabricClient"))
    /\ UNCHANGED <<peers, maxTimeout, uniquePeers, proposalResult,
                   transactionProposalResponse, orchestrationVars>>

\* lines 42-61: setUserContext settles; on success the proposal is built
\* and broadcast
SetUserContextReturns ==
    /\ pc = "setUserContext"
    /\ \E ok \in BOOLEAN :
          IF ok
          THEN /\ pc' = "sendTransactionProposal"
               /\ calls' = Called("sendTransactionProposal")
               /\ outcome' = outcome
          ELSE ChainFails(CollaboratorError("setUserContext"))
    /\ UNCHANGED <<peers, maxTimeout, uniquePeers, proposalResult,
                   transactionProposalResponse, orchestrationVars>>

\* lines 61 and 205-208: the broadcast fails
SendTransactionProposalFails ==
    /\ pc = "sendTransactionProposal"
    /\ ChainFails(CollaboratorError("sendTransactionProposal"))
    /\ UNCHANGED <<peers, maxTimeout, uniquePeers, proposalResult,
                   transactionProposalResponse, orchestrationVars>>

\* lines 63-91 and 173-175: the broadcast returns; a good proposal goes on
\* to load the certificate of the listening peer, a bad one throws
SendTransactionProposalReturns ==
    /\ pc = "sendTransactionProposal"
    /\ \E r \in ProposalResults :
          /\ proposalResult' = r
          /\ transactionProposalResponse' = ProposalResponseValue(r)
          /\ IF IsProposalGood(r)
             THEN /\ pc' = "loadPeerCert"
                  /\ calls' = Called("loadPeerCert")
                  /\ outcome' = outcome
             ELSE ChainFails(BadProposalError(r))
    /\ UNCHANGED <<peers, maxTimeout, uniquePeers, orchestrationVars>>

(***************************************************************************)
(* Commit orchestration: invoke.js lines 89-170.                           *)
(***************************************************************************)
\* line 90
PeerForListening == uniquePeers[1]

\* pc once the two legs run: "done" as soon as the invocation has settled
PcAfter(o) == IF o.state = "pending" THEN "orchestrating" ELSE "done"

\* lines 132-134: eventHub.connect() and eventHub.registerTxEvent(...)
StartListening(h) == [h EXCEPT !.connected = TRUE, !.registered = TRUE]

\* line 153: the condition under which the error callback re-arms the
\* listener instead of rejecting txPromise
RearmsListener(r) == r >= MAX_RETRIES_EVENT_HUB

\* may the deadline callback of line 127 run? Not before maxTimeout ticks
DeadlineReached(t, e, budget) == t = "armed" /\ e >= budget

\* lines 91 and 205-208: loadPeerCert fails
LoadPeerCertFails ==
    /\ pc = "loadPeerCert"
    /\ ChainFails(CollaboratorError("loadPeerCert"))
    /\ UNCHANGED <<peers, maxTimeout, uniquePeers, proposalResult,
                   transactionProposalResponse, orchestrationVars>>

\* a slip: the listener is armed as soon as the event hub exists, without
\* waiting for the switch to the admin identity
LoadPeerCertReturnsListeningAtOnce ==
    /\ pc = "loadPeerCert"
    /\ pc' = "orchestrating"
    /\ calls' = [calls EXCEPT !["sendTransaction"] = @ + 1,
                              !["newEventHub"] = @ + 1,
                              !["setUserContext"] = @ + 1]
    /\ sendLeg' = Pending
    /\ txLeg' = Pending
    /\ adminSwitch' = "pending"
    /\ hub' = StartListening([hub EXCEPT !.created = TRUE])
    /\ UNCHANGED <<peers, maxTimeout, uniquePeers, outcome, proposalResult,
                   transactionProposalResponse, timer, elapsed, retries,
                   rearmPending, listens, commits>>

\* lines 91-169: loadPeerCert returns: the transaction is sent to the
\* orderer, the event hub is created, and the executor of txPromise asks
\* for the switch to the admin identity of the listening peer
LoadPeerCertReturns ==
    /\ pc = "loadPeerCert"
    /\ pc' = "orchestrating"
    /\ calls' = [calls EXCEPT !["sendTransaction"] = @ + 1,
                              !["newEventHub"] = @ + 1,
                              !["setUserContext"] = @ + 1]
    /\ sendLeg' = Pending
    /\ txLeg' = Pending
    /\ adminSwitch' = "pending"
    /\ hub' = [hub EXCEPT !.created = TRUE]
    /\ UNCHANGED <<peers, maxTimeout, uniquePeers, outcome, proposalResult,
                   transactionProposalResponse, timer, elapsed, retries,
                   rearmPending, listens, commits>>

\* a slip: the two legs are joined in the listener callbacks only, so a
\* submission that returns last finds nobody to reconcile the results
SendTransactionReturnsWithoutJoin ==
    /\ sendLeg.state = "pending"
    /\ \E res \in {Fulfilled(Obj(<<"status", st>>)) : st \in SendStatuses}
                  \cup {Rejected(CollaboratorError("sendTransaction"))} :
          /\ sendLeg' = res
          /\ outcome' = IF res.state = "rejected" THEN Settle(outcome, res)
                        ELSE outcome
          /\ pc' = PcAfter(IF res.state = "rejected" THEN Settle(outcome, res)
                           ELSE outcome)
    /\ UNCHANGED <<peers, maxTimeout, uniquePeers, calls, proposalResult,
                   transactionProposalResponse, txLeg, adminSwitch, hub, timer,
                   elapsed, retries, rearmPending, listens, commits>>

\* line 109: channel.sendTransaction settles
SendTransactionReturns ==
    /\ sendLeg.state = "pending"
    /\ \E res \in {Fulfilled(Obj(<<"status", st>>)) : st \in SendStatuses}
                  \cup {Rejected(CollaboratorError("sendTransaction"))} :
          /\ sendLeg' = res
          /\ outcome' = AfterLegs(outcome, res, txLeg, transactionProposalResponse)
          /\ pc' = PcAfter(AfterLegs(outcome, res, txLeg, transactionProposalResponse))
    /\ UNCHANGED <<peers, maxTimeout, uniquePeers, calls, proposalResult,
                   transactionProposalResponse, txLeg, adminSwitch, hub, timer,
                   elapsed, retries, rearmPending, listens, commits>>

\* the listener leg settles (txPromiseResolve or txPromiseReject)
TxSettles(settled) ==
    /\ txLeg' = Settle(txLeg, settled)
    /\ outcome' = AfterLegs(outcome, sendLeg, Settle(txLeg, settled),
                            transactionProposalResponse)
    /\ pc' = PcAfter(AfterLegs(outcome, sendLeg, Settle(txLeg, settled),
                               transactionProposalResponse))

\* a slip: the catch of line 164 swallows the failed switch and leaves
\* txPromise pending
AdminSwitchFailsSwallowed ==
    /\ adminSwitch = "pending"
    /\ adminSwitch' = "failed"
    /\ UNCHANGED <<peers, maxTimeout, uniquePeers, pc, outcome, calls,
                   proposalResult, transactionProposalResponse, sendLeg, txLeg,
                   hub, timer, elapsed, retries, rearmPending, listens, commits>>

\* line 164: the switch to the admin identity fails
AdminSwitchFails ==
    /\ adminSwitch = "pending"
    /\ adminSwitch' = "failed"
    /\ TxSettles(Rejected(CollaboratorError("setUserContext(adminUserId)")))
    /\ UNCHANGED <<peers, maxTimeout, uniquePeers, calls, proposalResult,
                   transactionProposalResponse, sendLeg, hub, timer, elapsed,
                   retries, rearmPending, listens, commits>>

\* lines 126-162: the switch succeeds: the deadline timer is started and
\* startListening runs for the first time
AdminSwitchReturns ==
    /\ adminSwitch = "pending"
    /\ adminSwitch' = "ok"
    /\ timer' = "armed"
    /\ elapsed' = 0
    /\ retries' = 0
    /\ hub' = StartListening(hub)
    /\ listens' = listens + 1
    /\ UNCHANGED <<peers, maxTimeout, uniquePeers, pc, outcome, calls,
                   proposalResult, transactionProposalResponse, sendLeg, txLeg,
                   rearmPending, commits>>

\* lines 134-150: the event hub delivers the commit event of the
\* transaction to the registered callback
CommitEvent ==
    /\ hub.connected /\ hub.registered
    /\ \E code \in Codes :
          /\ commits' = commits \cup {code}
          /\ TxSettles(IF code # "VALID"
                       THEN Rejected(NewError(ReturnStatus(code)))
                       ELSE Fulfilled(ReturnStatus(code)))
    /\ timer' = IF timer = "armed" THEN "cleared" ELSE timer
    /\ hub' = [hub EXCEPT !.connected = FALSE, !.registered = FALSE]
    /\ UNCHANGED <<peers, maxTimeout, uniquePeers, calls, proposalResult,
                   transactionProposalResponse, sendLeg, adminSwitch, elapsed,
                   retries, rearmPending, listens>>

\* lines 151-160: the event hub reports a transport error to the
\* registered error callback; the hub may or may not have lost its
\* connection and its registrations with it
ErrorEvent ==
    /\ hub.registered
    /\ retries < MaxErrors
    /\ \E err \in TransportErrors, keepsConnection \in BOOLEAN,
          keepsRegistration \in BOOLEAN :
          /\ hub' = [hub EXCEPT !.connected = @ /\ keepsConnection,
                                !.registered = keepsRegistration]
          /\ IF RearmsListener(retries)
             THEN /\ rearmPending' = rearmPending + 1
                  /\ UNCHANGED <<txLeg, outcome, pc>>
             ELSE /\ rearmPending' = rearmPending
                  /\ TxSettles(Rejected(EventHubError(err)))
    /\ retries' = retries + 1
    /\ UNCHANGED <<peers, maxTimeout, uniquePeers, calls, proposalResult,
                   transactionProposalResponse, sendLeg, adminSwitch, timer,
                   elapsed, listens, commits>>

\* a slip: the deadline timer is started inside startListening, so that
\* every re-arm starts it anew
RearmRestartingTimer ==
    /\ rearmPending > 0
    /\ rearmPending' = rearmPending - 1
    /\ hub' = StartListening(hub)
    /\ listens' = listens + 1
    /\ timer' = "armed"
    /\ elapsed' = 0
    /\ UNCHANGED <<peers, maxTimeout, uniquePeers, pc, outcome, calls,
                   proposalResult, transactionProposalResponse, sendLeg, txLeg,
                   adminSwitch, retries, commits>>

\* line 155: a setTimeout(startListening, 0) callback runs
Rearm ==
    /\ rearmPending > 0
    /\ rearmPending' = rearmPending - 1
    /\ hub' = StartListening(hub)
    /\ listens' = listens + 1
    /\ UNCHANGED <<peers, maxTimeout, uniquePeers, pc, outcome, calls,
                   proposalResult, transactionProposalResponse, sendLeg, txLeg,
                   adminSwitch, timer, elapsed, retries, commits>>

\* a slip: the deadline callback closes the event hub and forgets to
\* reject txPromise
TimeoutOnlyDisconnects ==
    /\ DeadlineReached(timer, elapsed, maxTimeout)
    /\ timer' = "fired"
    /\ hub' = [hub EXCEPT !.connected = FALSE]
    /\ UNCHANGED <<peers, maxTimeout, uniquePeers, pc, outcome, calls,
                   proposalResult, transactionProposalResponse, sendLeg, txLeg,
                   adminSwitch, elapsed, retries, rearmPending, listens, commits>>

\* lines 127-130: the deadline callback runs
Timeout ==
    /\ DeadlineReached(timer, elapsed, maxTimeout)
    /\ timer' = "fired"
    /\ hub' = [hub EXCEPT !.connected = FALSE]
    /\ TxSettles(Rejected(TimeoutError))
    /\ UNCHANGED <<peers, maxTimeout, uniquePeers, calls, proposalResult,
                   transactionProposalResponse, sendLeg, adminSwitch, elapsed,
                   retries, rearmPending, listens, commits>>

\* time passes while the deadline timer is pending
Tick ==
    /\ timer = "armed"
    /\ elapsed < maxTimeout
    /\ elapsed' = elapsed + 1
    /\ UNCHANGED <<peers, maxTimeout, uniquePeers, pc, outcome, calls,
                   proposalResult, transactionProposalResponse, sendLeg, txLeg,
                   adminSwitch, hub, timer, retries, rearmPending, listens,
                   commits>>

Next ==
    \/ Invoke
    \/ CreateFabricClientReturns
    \/ SetUserContextReturns
    \/ SendTransactionProposalFails
    \/ SendTransactionProposalReturns
    \/ LoadPeerCertFails
    \/ LoadPeerCertReturns
    \/ SendTransactionReturns
    \/ AdminSwitchFails
    \/ AdminSwitchReturns
    \/ CommitEvent
    \/ ErrorEvent
    \/ Rearm
    \/ Timeout
    \/ Tick

Spec == Init /\ [][Next]_vars

\* the peer de-duplication alone, on longer peer lists
InitRegistry == InitWith(PeerInputs(MaxRegistryPeers))
NextRegistry == Invoke
SpecRegistry == InitRegistry /\ [][NextRegistry]_vars

(***************************************************************************)
(* Properties.                                                             *)
(***************************************************************************)
SendSucceeded == sendLeg = Fulfilled(Obj(<<"status", "SUCCESS">>))
SendSettled == sendLeg.state \in {"fulfilled", "rejected"}
TxSettled == txLeg.state \in {"fulfilled", "rejected"}
CommitValid == txLeg = Fulfilled(ReturnStatus("VALID")) /\ "VALID" \in commits
ProposalEvaluated == proposalResult # NoProposalResult
\* the first proposal response is a response object of status 200
FirstResponseIs200 ==
    proposalResult.present /\ proposalResult.response /\ proposalResult.status = 200

\* C1: the invocation resolves only if sendTransaction returned status
\* SUCCESS and a commit event with code VALID was received; once both legs
\* have settled in any other combination the invocation has rejected; and
\* the resolved value is the payload decoded from the first proposal
\* response, not the commit verdict.
C1_ResolvesOnlyOnSuccessAndValid ==
    /\ outcome.state = "fulfilled" =>
          /\ SendSucceeded
          /\ CommitValid
          /\ outcome.value = DecodePayload(proposalResult.payload)
          /\ outcome.value # txLeg.value
    /\ (SendSettled /\ TxSettled /\ ~(SendSucceeded /\ CommitValid)) =>
          outcome.state = "rejected"

C1_Witness ==
    /\ outcome = Fulfilled(Obj(<<"make", "Porsche">>))
    /\ SendSucceeded
    /\ CommitValid

\* C2: with an empty or absent (undefined or null) peer list the invocation
\* is rejected with the no-peers error and no network capability (client
\* creation, identity switch, proposal broadcast, ordering submission,
\* event channel) is ever used.
C2_NoPeersRejectsBeforeAnyCall ==
    (pc # "invoke" /\ (peers.kind # "array" \/ peers.items = << >>)) =>
        /\ outcome = Rejected(NoPeersError)
        /\ \A c \in Capabilities : calls[c] = 0
        /\ sendLeg = NoLeg /\ txLeg = NoLeg /\ adminSwitch = "none"
        /\ ~hub.created /\ ~hub.connected /\ ~hub.registered
        /\ listens = 0 /\ timer = "none"

C2_Witness ==
    /\ peers.kind = "null"
    /\ pc = "done"
    /\ outcome = Rejected(NoPeersError)

RECURSIVE FirstSeen(_)
\* the identities of a peer list, each once, in the order first seen
FirstSeen(ps) ==
    IF ps = << >> THEN << >>
    ELSE LET before == FirstSeen(SubSeq(ps, 1, Len(ps) - 1))
             cn == ps[Len(ps)].cn
         IN  IF \E i \in DOMAIN before : before[i] = cn THEN before
             ELSE Append(before, cn)

\* C3: the de-duplicated peer list holds no two peers of equal identity
\* (cn), is no longer than the input, and keeps the peers in the order in
\* which their identities were first seen in the input.
C3_UniqueInFirstSeenOrder ==
    pc # "invoke" =>
        /\ \A i, j \in DOMAIN uniquePeers :
              uniquePeers[i].cn = uniquePeers[j].cn => i = j
        /\ Len(uniquePeers) <= Len(PeersOrEmpty(peers))
        /\ [i \in DOMAIN uniquePeers |-> uniquePeers[i].cn]
              = FirstSeen(PeersOrEmpty(peers))

CertificateFailed == outcome = Rejected(CollaboratorError("loadPeerCert"))
NoCommitAttempted ==
    /\ calls["sendTransaction"] = 0 /\ sendLeg = NoLeg
    /\ calls["newEventHub"] = 0 /\ ~hub.created /\ ~hub.connected
    /\ ~hub.registered /\ listens = 0

BadWithMessage(r) ==
    r.present /\ ~(r.response /\ r.status = 200) /\ r.message # ""

DeadlineFires == timer = "armed" /\ timer' = "fired"

\* C6 as stated: with a good endorsement and a successful ordering
\* submission, if no commit event has arrived when the deadline timer
\* expires, the event channel is closed and the invocation rejects with
\* the timeout error; and it never rejects with that error before the
\* deadline has elapsed.
C6_TimeoutWithoutCommit ==
    [][/\ (DeadlineFires /\ SendSucceeded /\ commits = {}) =>
             ~hub'.connected /\ outcome' = Rejected(TimeoutError)
       /\ outcome' = Rejected(TimeoutError) =>
             timer' = "fired" /\ elapsed' >= maxTimeout]_vars

\* the commit event was the first thing the listener heard, and its code
FirstHeardCommit(code) == commits = {code} /\ retries = 0 /\ timer = "cleared"

\* C7: with a good endorsement and a successful ordering submission, a
\* commit event with a validation code other than VALID rejects the
\* invocation, and the reason of the rejection mentions that code.
C7_InvalidCommitNamesItsCode ==
    \A code \in Codes \ {"VALID"} :
        (SendSucceeded /\ FirstHeardCommit(code)) =>
            /\ outcome.state = "rejected"
            /\ Mentions(outcome.value, code)

TransportErrorReported == retries' = retries + 1

\* C8: a transport error reported when fewer than MAX_RETRIES_EVENT_HUB
\* retries have been made re-arms the listener and does not fail the
\* listener leg; the leg fails on a transport error only once the retry
\* budget is exceeded.
C8_TransportErrorRearmsWithinBudget ==
    [][TransportErrorReported =>
          /\ retries < MAX_RETRIES_EVENT_HUB =>
                rearmPending' = rearmPending + 1 /\ txLeg' = txLeg
          /\ (txLeg.state = "pending" /\ txLeg'.state = "rejected") =>
                retries >= MAX_RETRIES_EVENT_HUB]_vars

OrderingFailed ==
    \/ sendLeg.state = "rejected"
    \/ sendLeg.state = "fulfilled" /\ ~SendSucceeded
OrderingLine == "Failed to order the transaction.Error code: "
CommitLine == "Transaction failed to be committed to the ledger due to: "

\* the reason of the rejection lists the ordering failure: by the line the
\* reconciler writes for it, or by being the error sendTransaction threw
ListsOrderingFailure ==
    \/ Mentions(outcome.value, OrderingLine)
    \/ sendLeg.state = "rejected" /\ outcome.value = sendLeg.value
\* the reason lists the commit failure: by the line the reconciler writes
\* for it, or by the validation code
ListsCommitFailure(code) ==
    \/ Mentions(outcome.value, CommitLine)
    \/ code # "VALID" /\ Mentions(outcome.value, code)

\* C9: when the ordering submission is not a success and the commit event
\* is not VALID, the invocation rejects with one reason that lists both
\* the ordering failure and the commit failure; when only one leg failed,
\* the reason lists that leg and not the other.
C9_ReasonListsEachFailedLeg ==
    \A code \in Codes :
        (SendSettled /\ FirstHeardCommit(code)
         /\ (OrderingFailed \/ code # "VALID")) =>
            /\ outcome.state = "rejected"
            /\ ListsOrderingFailure <=> OrderingFailed
            /\ ListsCommitFailure(code) <=> code # "VALID"

FailedAt(capability) ==
    /\ outcome = Rejected(CollaboratorError(capability))
    /\ calls["loadPeerCert"] = 0
    /\ NoCommitAttempted

\* C10: if client creation, the binding of the caller identity or the
\* proposal broadcast fails, the invocation rejects with that error, the
\* proposal is never sent a second time, and no later stage (certificate
\* loading, ordering submission, event channel) is entered.
C10_EarlyFailureAborts ==
    /\ calls["sendTransactionProposal"] <= 1
    /\ calls["createFabricClient"] <= 1
    /\ (pc = "done" /\ calls["createFabricClient"] = 1
        /\ calls["setUserContext"] = 0) =>
          FailedAt("createFabricClient") /\ calls["sendTransactionProposal"] = 0
    /\ (pc = "done" /\ calls["setUserContext"] = 1
        /\ calls["sendTransactionProposal"] = 0) =>
          FailedAt("setUserContext")
    /\ (pc = "done" /\ calls["sendTransactionProposal"] = 1
        /\ ~ProposalEvaluated) =>
          FailedAt("sendTransactionProposal")

C10_Witness ==
    /\ pc = "done"
    /\ calls["sendTransactionProposal"] = 1
    /\ ~ProposalEvaluated
    /\ outcome = Rejected(CollaboratorError("sendTransactionProposal"))

OrchestrationStarted == sendLeg.state # "none"

\* C11: after a good endorsement the invocation does not settle before
\* both the ordering-submission leg and the commit-listener leg have
\* produced their outcomes; a failure of the faster leg never settles it
\* while the other leg is still pending.
C11_SettlesOnlyAfterBothLegs ==
    (OrchestrationStarted /\ outcome.state # "pending") =>
        SendSettled /\ TxSettled

ListenerLegSettles == txLeg.state = "pending" /\ txLeg'.state # "pending"

\* C12: once the deadline timer is started, every step that settles the
\* listener leg other than the deadline itself (valid commit, invalid
\* commit, fatal transport error) cancels it, and the deadline callback
\* never runs after the listener leg has settled.
C12_TimerCancelledOnEverySettlement ==
    [][/\ (ListenerLegSettles /\ timer = "armed" /\ ~DeadlineFires) =>
             timer' = "cleared"
       /\ DeadlineFires => txLeg.state = "pending"]_vars

\* C13: on every exit path of the listener leg after the event channel
\* was opened (valid commit, invalid commit, deadline, fatal transport
\* error) the event channel is disconnected by the time the leg settles:
\* no listener leg settles with its event channel still connected.
C13_HubClosedWhenListenerSettles ==
    [][(ListenerLegSettles /\ listens >= 1) => ~hub'.connected]_vars

\* C14: whatever the transport errors of one invocation, the listener is
\* re-armed at most MAX_RETRIES_EVENT_HUB times, and the transport error
\* that comes when the budget is used up (the 6th) ends the listener leg
\* with a fatal error and re-arms nothing, nor does any later one.
C14_RearmsBoundedByBudget ==
    [][/\ listens' <= 1 + MAX_RETRIES_EVENT_HUB
       /\ (TransportErrorReported /\ retries >= MAX_RETRIES_EVENT_HUB) =>
             /\ rearmPending' = rearmPending
             /\ txLeg'.state = "rejected"]_vars

ListenerRearmed == listens >= 1 /\ listens' = listens + 1

\* C15: at most one deadline timer is started in an invocation, and
\* re-arming the listener neither restarts nor replaces it: the deadline
\* that fires is the one set when the listener leg first started, however
\* often the listener was re-armed.
C15_OneDeadlineTimer ==
    [][/\ (timer' = "armed" /\ timer # "armed") =>
             timer = "none" /\ listens = 0 /\ elapsed' = 0
       /\ timer # "none" => elapsed' >= elapsed
       /\ ListenerRearmed => timer' = timer /\ elapsed' = elapsed
       /\ DeadlineFires => elapsed >= maxTimeout]_vars

C15_Witness ==
    /\ listens >= 2
    /\ timer = "fired"
    /\ elapsed = maxTimeout

\* C16: in an invocation that reaches commit orchestration the ordering
\* submission is issued before the listener is armed, and the event channel
\* is not connected, interest in the transaction is not registered and the
\* deadline is not running before the switch to the admin identity of the
\* listening peer has succeeded.
C16_ListenerArmedAfterSubmissionAndSwitch ==
    (hub.connected \/ hub.registered \/ listens >= 1 \/ timer # "none"
     \/ rearmPending > 0 \/ retries > 0 \/ commits # {}) =>
        /\ adminSwitch = "ok"
        /\ calls["sendTransaction"] = 1
        /\ calls["setUserContext"] = 2
        /\ sendLeg.state # "none"
        /\ hub.created

C16_Witness ==
    /\ hub.connected /\ hub.registered /\ listens = 1
    /\ adminSwitch = "ok"
    /\ sendLeg.state = "pending"

SubmissionReturnsSuccess ==
    sendLeg.state = "pending" /\ sendLeg' = Fulfilled(Obj(<<"status", "SUCCESS">>))
ValidCommitArrives == txLeg.state = "pending" /\ CommitValid'
ResolvedWithPayload == Fulfilled(DecodePayload(proposalResult.payload))

\* C17: a VALID commit event delivered before sendTransaction has returned
\* is kept: the invocation stays pending with the listener's result
\* unchanged, and when the submission then returns SUCCESS the invocation
\* resolves with the decoded payload, exactly as it does when the
\* submission returns first and the commit event second.
C17_EarlyCommitIsRetained ==
    [][/\ (CommitValid /\ sendLeg.state = "pending") =>
             outcome.state = "pending"
       /\ CommitValid => txLeg' = txLeg
       /\ (CommitValid /\ SubmissionReturnsSuccess) =>
             outcome' = ResolvedWithPayload'
       /\ (SendSucceeded /\ ValidCommitArrives) =>
             outcome' = ResolvedWithPayload']_vars

C17_Witness ==
    /\ CommitValid
    /\ sendLeg.state = "pending"
    /\ outcome.state = "pending"
    /\ ~hub.connected /\ ~hub.registered

(***************************************************************************)
(* Every collaborator call returns, time passes, and the deadline callback *)
(* of a timer that was not cancelled runs.  The event hub owes nothing: it *)
(* may deliver commit events and transport errors or stay silent.          *)
(***************************************************************************)
Fairness ==
    /\ WF_vars(Invoke)
    /\ WF_vars(CreateFabricClientReturns)
    /\ WF_vars(SetUserContextReturns)
    /\ WF_vars(SendTransactionProposalFails \/ SendTransactionProposalReturns)
    /\ WF_vars(LoadPeerCertFails \/ LoadPeerCertReturns)
    /\ WF_vars(SendTransactionReturns)
    /\ WF_vars(AdminSwitchFails \/ AdminSwitchReturns)
    /\ WF_vars(Tick)
    /\ WF_vars(Timeout)

FairSpec == Init /\ [][Next]_vars /\ Fairness

\* C18: if every collaborator call returns and a started deadline timer
\* fires unless it is cancelled, every invocation settles in the end, and
\* it settles once: a settled outcome never changes, whatever commit events
\* and transport errors come, and in whatever order.
C18_SettlesExactlyOnce ==
    /\ <>(outcome.state # "pending")
    /\ [][outcome.state # "pending" => outcome' = outcome]_vars

C18_Witness ==
    /\ outcome.state = "rejected"
    /\ retries >= 2
    /\ commits # {}
    /\ timer = "fired"
    /\ SendSettled /\ TxSettled

\* the descriptor of the last occurrence of identity cn in a peer list
LastDescriptor(ps, cn) ==
    ps[CHOOSE i \in DOMAIN ps :
          /\ ps[i].cn = cn
          /\ \A j \in DOMAIN ps : ps[j].cn = cn => j <= i]

\* C19: of several descriptors with the same identity (cn) the one kept is
\* the last given, placed where the identity first occurred; hence the peer
\* used for commit listening is the last descriptor given for the identity
\* seen first in the input.
C19_LastDescriptorAtFirstPosition ==
    pc # "invoke" =>
        LET ps == PeersOrEmpty(peers)
            seen == FirstSeen(ps)
        IN  /\ Len(uniquePeers) = Len(seen)
            /\ \A i \in DOMAIN uniquePeers :
                  uniquePeers[i] = LastDescriptor(ps, seen[i])
            /\ ps # << >> => uniquePeers[1] = LastDescriptor(ps, ps[1].cn)

SwitchError == CollaboratorError("setUserContext(adminUserId)")
ListenerNeverArmed ==
    /\ ~hub.connected /\ ~hub.registered
    /\ listens = 0 /\ timer = "none" /\ rearmPending = 0 /\ commits = {}

=============================================================================
